---- MODULE Spec2Model ----
(***************************************************************************)
(* Model of src/signatureTransfer.ts: the SignatureTransfer typed-data     *)
(* builders (getPermitTransferData, getPermitBatchTransferData,            *)
(* getPermitData) and hash, applied by a caller to a permit object it      *)
(* owns.  JavaScript objects are records whose key set can grow; a         *)
(* JavaScript array is the record [array |-> <<...>>]; the optional        *)
(* `witness` argument is [present |-> FALSE] when it is undefined.         *)
(***************************************************************************)
EXTENDS Integers, Sequences, FiniteSets, TLC

VARIABLES
    permit,   \* the caller's permit object, as it is now
    orig,     \* the same object as the caller constructed it
    last,     \* the most recent call: its arguments, the object before it, its outcome
    pair      \* two hash calls on inputs that differ in one field (SpecPair only)

vars == <<permit, orig, last, pair>>

----------------------------------------------------------------------------
(* Bounds of the model *)

\* uint256 values are scaled down: WordMax stands for 2^256 - 1
WordMax == 1
\* longest batch `permitted` list
MaxLen == 2

----------------------------------------------------------------------------
(* Constants and collaborators imported by signatureTransfer.ts *)

MaxSigDeadline == WordMax
MaxUnorderedNonce == WordMax
MaxSignatureTransferAmount == WordMax

permit2Domain(permit2Address, chainId) ==
    [name |-> "Permit2", version |-> "fixed", chainId |-> chainId,
     verifyingContract |-> permit2Address]

\* the typed-data hashing primitive, injective: a hash is identified with the
\* request it was computed from
hashTypedData(request) == request

----------------------------------------------------------------------------
(* Type declarations *)

Field(n, t) == [name |-> n, type |-> t]

TOKEN_PERMISSIONS == <<Field("token", "address"), Field("amount", "uint256")>>

PERMIT_TRANSFER_FROM_TYPES ==
    [TokenPermissions |-> TOKEN_PERMISSIONS,
     PermitTransferFrom |->
        <<Field("permitted", "TokenPermissions"), Field("spender", "address"),
          Field("nonce", "uint256"), Field("deadline", "uint256")>>]

PERMIT_BATCH_TRANSFER_FROM_TYPES ==
    [TokenPermissions |-> TOKEN_PERMISSIONS,
     PermitBatchTransferFrom |->
        <<Field("permitted", "TokenPermissions[]"), Field("spender", "address"),
          Field("nonce", "uint256"), Field("deadline", "uint256")>>]

----------------------------------------------------------------------------
(* JavaScript object operations *)

\* { ...a, ...b } and Object.assign(a, b): the keys of both, b's values winning
Merge(a, b) == b @@ a

IsArray(v) == "array" \in DOMAIN v

\* bigint `max >= obj[key]`; a missing key reads undefined and compares false
GEField(max, obj, key) == IF key \in DOMAIN obj THEN max >= obj[key] ELSE FALSE

Throw(msg, p) == [fault |-> msg, data |-> [none |-> TRUE], permit |-> p]
Return(d, p) == [fault |-> "OK", data |-> d, permit |-> p]

----------------------------------------------------------------------------
(* signatureTransfer.ts *)

isPermitTransferFromByLength(p) ==
    ~IsArray(p.permitted) \/ Len(p.permitted.array) = 1

isPermitTransferFrom(p) == ~IsArray(p.permitted)

validateTokenPermissions(permissions) ==
    IF GEField(MaxSignatureTransferAmount, permissions, "amount")
    THEN "OK" ELSE "AMOUNT_OUT_OF_RANGE"

\* permit.permitted.forEach(validateTokenPermissions): the first throw ends it
forEachValidateFirstOnly(list) ==
    IF Len(list) > 0 THEN validateTokenPermissions(list[1]) ELSE "OK"

forEachValidate(list) ==
    IF \E i \in 1..Len(list) : validateTokenPermissions(list[i]) # "OK"
    THEN "AMOUNT_OUT_OF_RANGE" ELSE "OK"

\* invariant(MaxSigDeadline >= permit.deadline, ...)
checkDeadlineStrict(p) == MaxSigDeadline > p.deadline

checkDeadline(p) == MaxSigDeadline >= p.deadline

\* invariant(MaxUnorderedNonce >= permit.nonce, ...)
checkNonce(p) == MaxUnorderedNonce >= p.nonce

WitnessTransferFrom(permittedType, witnessTypeName) ==
    <<Field("permitted", permittedType), Field("spender", "address"),
      Field("nonce", "uint256"), Field("deadline", "uint256"),
      Field("witness", witnessTypeName)>>

\* the `types` of the single builder
singleTypes(witness) ==
    IF witness.present
    THEN Merge(Merge("TokenPermissions" :> TOKEN_PERMISSIONS, witness.witnessType),
               "PermitWitnessTransferFrom" :>
                   WitnessTransferFrom("TokenPermissions", witness.witnessTypeName))
    ELSE PERMIT_TRANSFER_FROM_TYPES

batchTypesKeepBase(witness) ==
    IF witness.present
    THEN Merge(Merge(Merge(PERMIT_BATCH_TRANSFER_FROM_TYPES, witness.witnessType),
                     "TokenPermissions" :> TOKEN_PERMISSIONS),
               "PermitBatchWitnessTransferFrom" :>
                   WitnessTransferFrom("TokenPermissions[]", witness.witnessTypeName))
    ELSE PERMIT_BATCH_TRANSFER_FROM_TYPES

\* the `types` of the batch builder
batchTypes(witness) ==
    IF witness.present
    THEN Merge(Merge(witness.witnessType, "TokenPermissions" :> TOKEN_PERMISSIONS),
               "PermitBatchWitnessTransferFrom" :>
                   WitnessTransferFrom("TokenPermissions[]", witness.witnessTypeName))
    ELSE PERMIT_BATCH_TRANSFER_FROM_TYPES

getPermitTransferData(p, permit2Address, chainId, witness) ==
    IF ~checkDeadline(p) THEN Throw("SIG_DEADLINE_OUT_OF_RANGE", p)
    ELSE IF ~checkNonce(p) THEN Throw("NONCE_OUT_OF_RANGE", p)
    ELSE IF validateTokenPermissions(p.permitted) # "OK" THEN Throw("AMOUNT_OUT_OF_RANGE", p)
    ELSE
      LET domain == permit2Domain(permit2Address, chainId)
          types == singleTypes(witness)
          \* Object.assign writes into its target, the caller's object, and returns it
          values == IF witness.present
                    THEN Merge(p, "witness" :> witness.witness)
                    ELSE p
      IN Return([domain |-> domain, types |-> types, values |-> values], values)

\* the batch builder with the witness merged before the bounds are checked
getPermitBatchTransferDataAssignFirst(p, permit2Address, chainId, witness) ==
    LET values == IF witness.present
                  THEN Merge(p, "witness" :> witness.witness)
                  ELSE p
    IN IF ~checkDeadline(p) THEN Throw("SIG_DEADLINE_OUT_OF_RANGE", values)
       ELSE IF ~checkNonce(p) THEN Throw("NONCE_OUT_OF_RANGE", values)
       ELSE IF forEachValidate(p.permitted.array) # "OK"
            THEN Throw("AMOUNT_OUT_OF_RANGE", values)
       ELSE Return([domain |-> permit2Domain(permit2Address, chainId),
                    types |-> batchTypes(witness), values |-> values], values)

getPermitBatchTransferData(p, permit2Address, chainId, witness) ==
    IF ~checkDeadline(p) THEN Throw("SIG_DEADLINE_OUT_OF_RANGE", p)
    ELSE IF ~checkNonce(p) THEN Throw("NONCE_OUT_OF_RANGE", p)
    ELSE IF forEachValidate(p.permitted.array) # "OK" THEN Throw("AMOUNT_OUT_OF_RANGE", p)
    ELSE
      LET domain == permit2Domain(permit2Address, chainId)
          types == batchTypes(witness)
          values == IF witness.present
                    THEN Merge(p, "witness" :> witness.witness)
                    ELSE p
      IN Return([domain |-> domain, types |-> types, values |-> values], values)

getPermitData(p, permit2Address, chainId, witness) ==
    IF isPermitTransferFrom(p)
    THEN getPermitTransferData(p, permit2Address, chainId, witness)
    ELSE getPermitBatchTransferData(p, permit2Address, chainId, witness)

\* the outcome of hash: the fault, the request handed to hashTypedData (when
\* it was invoked), the returned hash, and the caller's object afterwards
HashThrow(r) ==
    [fault |-> r.fault, invoked |-> FALSE, request |-> [none |-> TRUE],
     hash |-> [none |-> TRUE], permit |-> r.permit]
HashReturn(r, request) ==
    [fault |-> "OK", invoked |-> TRUE, request |-> request,
     hash |-> hashTypedData(request), permit |-> r.permit]

\* hash naming the primary type without regard to the witness
hashOneName(p, permit2Address, chainId, witness) ==
    IF isPermitTransferFrom(p)
    THEN LET r == getPermitTransferData(p, permit2Address, chainId, witness)
         IN IF r.fault # "OK" THEN HashThrow(r)
            ELSE HashReturn(r,
                   [domain |-> r.data.domain,
                    types |-> r.data.types,
                    primaryType |-> "PermitTransferFrom",
                    message |-> [k \in DOMAIN r.data.values |-> r.data.values[k]]])
    ELSE LET r == getPermitBatchTransferData(p, permit2Address, chainId, witness)
         IN IF r.fault # "OK" THEN HashThrow(r)
            ELSE HashReturn(r,
                   [domain |-> r.data.domain,
                    types |-> r.data.types,
                    primaryType |-> "PermitBatchTransferFrom",
                    message |-> [k \in DOMAIN r.data.values |-> r.data.values[k]]])

\* hash building its message without the spender
hashOmitsSpender(p, permit2Address, chainId, witness) ==
    IF isPermitTransferFrom(p)
    THEN LET r == getPermitTransferData(p, permit2Address, chainId, witness)
         IN IF r.fault # "OK" THEN HashThrow(r)
            ELSE HashReturn(r,
                   [domain |-> r.data.domain,
                    types |-> r.data.types,
                    primaryType |-> IF witness.present THEN "PermitWitnessTransferFrom"
                                    ELSE "PermitTransferFrom",
                    message |-> [k \in DOMAIN r.data.values \ {"spender"} |-> r.data.values[k]]])
    ELSE LET r == getPermitBatchTransferData(p, permit2Address, chainId, witness)
         IN IF r.fault # "OK" THEN HashThrow(r)
            ELSE HashReturn(r,
                   [domain |-> r.data.domain,
                    types |-> r.data.types,
                    primaryType |-> IF witness.present THEN "PermitBatchWitnessTransferFrom"
                                    ELSE "PermitBatchTransferFrom",
                    message |-> [k \in DOMAIN r.data.values \ {"spender"} |-> r.data.values[k]]])

hash(p, permit2Address, chainId, witness) ==
    IF isPermitTransferFrom(p)
    THEN LET r == getPermitTransferData(p, permit2Address, chainId, witness)
         IN IF r.fault # "OK" THEN HashThrow(r)
            ELSE HashReturn(r,
                   [domain |-> r.data.domain,
                    types |-> r.data.types,
                    primaryType |-> IF witness.present THEN "PermitWitnessTransferFrom"
                                    ELSE "PermitTransferFrom",
                    message |-> [k \in DOMAIN r.data.values |-> r.data.values[k]]])
    ELSE LET r == getPermitBatchTransferData(p, permit2Address, chainId, witness)
         IN IF r.fault # "OK" THEN HashThrow(r)
            ELSE HashReturn(r,
                   [domain |-> r.data.domain,
                    types |-> r.data.types,
                    primaryType |-> IF witness.present THEN "PermitBatchWitnessTransferFrom"
                                    ELSE "PermitBatchTransferFrom",
                    message |-> [k \in DOMAIN r.data.values |-> r.data.values[k]]])

----------------------------------------------------------------------------
(* The caller's inputs *)

\* a small value, the maximum, and one past it
Words == {0, WordMax, WordMax + 1}
Tokens == {"tokenA", "tokenB"}
Spenders == {"spender1", "spender2"}
Permit2Addresses == {"permit2"}
ChainIds == {1}

TokenPermissionsSet == [token : Tokens, amount : Words]

Lists == UNION {[1..n -> TokenPermissionsSet] : n \in 0..MaxLen}

PermittedSet == TokenPermissionsSet \cup {[array |-> l] : l \in Lists}

\* permit objects as a caller constructs them
Permits == [permitted : PermittedSet, spender : Spenders, nonce : Words, deadline : Words]

OrderType == "Order" :> <<Field("id", "uint256")>>
Bogus == <<Field("x", "bytes")>>

WitnessTypes ==
    { OrderType,
      Merge(OrderType, "TokenPermissions" :> Bogus),
      Merge(OrderType, [PermitTransferFrom |-> Bogus, PermitBatchTransferFrom |-> Bogus]),
      Merge(OrderType, [PermitWitnessTransferFrom |-> Bogus,
                        PermitBatchWitnessTransferFrom |-> Bogus]) }

NoWitness == [present |-> FALSE]

Witnesses ==
    { [present |-> TRUE, witness |-> "w1", witnessTypeName |-> "Order", witnessType |-> t] :
        t \in WitnessTypes }
    \cup { [present |-> TRUE, witness |-> "w2", witnessTypeName |-> "Order",
            witnessType |-> OrderType] }

WitnessArgs == {NoWitness} \cup Witnesses

----------------------------------------------------------------------------
(* The caller *)

NoCall ==
    [op |-> "none", pre |-> [none |-> TRUE], permit2Address |-> "none", chainId |-> 0,
     witness |-> NoWitness, fault |-> "none", data |-> [none |-> TRUE],
     invoked |-> FALSE, request |-> [none |-> TRUE], hash |-> [none |-> TRUE]]

DataCall(op, a, c, w, r) ==
    [op |-> op, pre |-> permit, permit2Address |-> a, chainId |-> c, witness |-> w,
     fault |-> r.fault, data |-> r.data,
     invoked |-> FALSE, request |-> [none |-> TRUE], hash |-> [none |-> TRUE]]

Init ==
    /\ permit \in Permits
    /\ orig = permit
    /\ last = NoCall
    /\ pair = [done |-> FALSE]

CallGetPermitTransferData(a, c, w) ==
    /\ ~IsArray(permit.permitted)
    /\ LET r == getPermitTransferData(permit, a, c, w)
       IN /\ permit' = r.permit
          /\ last' = DataCall("getPermitTransferData", a, c, w, r)
    /\ UNCHANGED <<orig, pair>>

CallGetPermitBatchTransferData(a, c, w) ==
    /\ IsArray(permit.permitted)
    /\ LET r == getPermitBatchTransferData(permit, a, c, w)
       IN /\ permit' = r.permit
          /\ last' = DataCall("getPermitBatchTransferData", a, c, w, r)
    /\ UNCHANGED <<orig, pair>>

CallGetPermitData(a, c, w) ==
    /\ LET r == getPermitData(permit, a, c, w)
       IN /\ permit' = r.permit
          /\ last' = DataCall("getPermitData", a, c, w, r)
    /\ UNCHANGED <<orig, pair>>

CallHash(a, c, w) ==
    /\ LET r == hash(permit, a, c, w)
       IN /\ permit' = r.permit
          /\ last' = [op |-> "hash", pre |-> permit, permit2Address |-> a, chainId |-> c,
                      witness |-> w, fault |-> r.fault, data |-> [none |-> TRUE],
                      invoked |-> r.invoked, request |-> r.request, hash |-> r.hash]
    /\ UNCHANGED <<orig, pair>>

Next ==
    \E a \in Permit2Addresses, c \in ChainIds, w \in WitnessArgs :
        \/ CallGetPermitTransferData(a, c, w)
        \/ CallGetPermitBatchTransferData(a, c, w)
        \/ CallGetPermitData(a, c, w)
        \/ CallHash(a, c, w)

Spec == Init /\ [][Next]_vars

----------------------------------------------------------------------------
(* Two hash calls on inputs that differ in one field *)

\* the object without a `witness` key
Strip(p) == [k \in DOMAIN p \ {"witness"} |-> p[k]]

ValidWords == {v \in Words : v <= WordMax}

\* the permit objects a caller can hold: as constructed, or after an earlier
\* call with a witness wrote its payload into them
HeldPermits ==
    Permits \cup {Merge(p, "witness" :> "w1") : p \in Permits}

Positions(p) == IF IsArray(p.permitted) THEN 1..Len(p.permitted.array) ELSE {1}

WithToken(p, i, t) ==
    IF IsArray(p.permitted) THEN [p EXCEPT !.permitted.array[i].token = t]
    ELSE [p EXCEPT !.permitted.token = t]

WithAmount(p, i, v) ==
    IF IsArray(p.permitted) THEN [p EXCEPT !.permitted.array[i].amount = v]
    ELSE [p EXCEPT !.permitted.amount = v]

\* the inputs that differ from (p, w) in exactly the named field
Varied(p, w, field) ==
    CASE field = "spender" ->
           {<<[p EXCEPT !.spender = s], w>> : s \in Spenders \ {p.spender}}
      [] field = "nonce" ->
           {<<[p EXCEPT !.nonce = v], w>> : v \in ValidWords \ {p.nonce}}
      [] field = "deadline" ->
           {<<[p EXCEPT !.deadline = v], w>> : v \in ValidWords \ {p.deadline}}
      [] field = "token" ->
           UNION {{<<WithToken(p, i, t), w>> :
                     t \in {u \in Tokens : WithToken(p, i, u) # p}} : i \in Positions(p)}
      [] field = "amount" ->
           UNION {{<<WithAmount(p, i, v), w>> :
                     v \in {u \in ValidWords : WithAmount(p, i, u) # p}} : i \in Positions(p)}
      [] field = "witness" ->
           {<<p, w2>> : w2 \in {x \in WitnessArgs : x.present # w.present}}

FieldNames == {"spender", "nonce", "deadline", "token", "amount", "witness"}

InitPair ==
    /\ permit \in HeldPermits
    /\ orig = Strip(permit)
    /\ last = NoCall
    /\ pair = [done |-> FALSE]

HashPair(a, c, w, field) ==
    /\ ~pair.done
    /\ \E in2 \in Varied(permit, w, field) :
         LET r1 == hash(permit, a, c, w)
             r2 == hash(in2[1], a, c, in2[2])
         IN /\ r1.fault = "OK"
            /\ r2.fault = "OK"
            /\ permit' = r1.permit
            /\ last' = [op |-> "hash", pre |-> permit, permit2Address |-> a, chainId |-> c,
                        witness |-> w, fault |-> r1.fault, data |-> [none |-> TRUE],
                        invoked |-> r1.invoked, request |-> r1.request, hash |-> r1.hash]
            /\ pair' = [done |-> TRUE, field |-> field,
                        permitA |-> permit, witnessA |-> w,
                        permitB |-> in2[1], witnessB |-> in2[2],
                        requestA |-> r1.request, requestB |-> r2.request,
                        hashA |-> r1.hash, hashB |-> r2.hash]
    /\ UNCHANGED orig

NextPair ==
    \E a \in Permit2Addresses, c \in ChainIds, w \in WitnessArgs, field \in FieldNames :
        HashPair(a, c, w, field)

SpecPair == InitPair /\ [][NextPair]_vars

----------------------------------------------------------------------------
(* What the claims speak about *)

Called == last.op # "none"
Succeeded == last.fault = "OK"
Faulted == Called /\ ~Succeeded
IsBatch(p) == IsArray(p.permitted)

\* the token permissions of a permit, single or batch
Entries(p) == IF IsBatch(p) THEN p.permitted.array ELSE <<p.permitted>>

AmountsInRange(p) ==
    \A i \in 1..Len(Entries(p)) : Entries(p)[i].amount <= MaxSignatureTransferAmount

\* the `types` a successful call produced
TypesOf(call) == IF call.op = "hash" THEN call.request.types ELSE call.data.types

BaseName(p) == IF IsBatch(p) THEN "PermitBatchTransferFrom" ELSE "PermitTransferFrom"
ExtendedName(p) ==
    IF IsBatch(p) THEN "PermitBatchWitnessTransferFrom" ELSE "PermitWitnessTransferFrom"
PrimaryName(p, w) == IF w.present THEN ExtendedName(p) ELSE BaseName(p)
PermittedType(p) == IF IsBatch(p) THEN "TokenPermissions[]" ELSE "TokenPermissions"

BoundsInRange(p) ==
    /\ p.deadline <= MaxSigDeadline
    /\ p.nonce <= MaxUnorderedNonce
    /\ AmountsInRange(p)

----------------------------------------------------------------------------
(* Claims *)

\* C1: a call does not mutate the caller's permit object: after the call the
\* object has exactly the fields and values it had before it (no `witness`
\* key has been added).
C1_NoMutation == Called => permit = last.pre

\* C2: validateTokenPermissions passes exactly for amounts <= the maximum, and
\* a call whose deadline and nonce are in range fails with AMOUNT_OUT_OF_RANGE
\* exactly when some permitted entry, at any position, exceeds the maximum.
C2_AmountBound ==
    /\ \A t \in Tokens, a \in Words :
          (validateTokenPermissions([token |-> t, amount |-> a]) = "OK")
              <=> (a <= MaxSignatureTransferAmount)
    /\ \A t \in Tokens, a \in Words :
          (validateTokenPermissions([token |-> t, amount |-> a]) = "AMOUNT_OUT_OF_RANGE")
              <=> (a > MaxSignatureTransferAmount)
    /\ (Called /\ last.pre.deadline <= MaxSigDeadline /\ last.pre.nonce <= MaxUnorderedNonce)
          => last.fault = IF AmountsInRange(last.pre) THEN "OK" ELSE "AMOUNT_OUT_OF_RANGE"

C2_Witness ==
    /\ last.op = "getPermitBatchTransferData"
    /\ Len(last.pre.permitted.array) = 2
    /\ last.pre.permitted.array[1].amount = MaxSignatureTransferAmount
    /\ last.pre.permitted.array[2].amount = MaxSignatureTransferAmount + 1
    /\ last.fault = "AMOUNT_OUT_OF_RANGE"

\* C3: in both builders the upper bounds on deadline and nonce are inclusive:
\* deadline and nonce at their maxima (amounts valid) succeed, deadline one
\* past the maximum fails with SIG_DEADLINE_OUT_OF_RANGE, and nonce one past
\* the maximum (deadline in range) fails with NONCE_OUT_OF_RANGE.
C3_InclusiveBounds ==
    Called =>
      /\ (last.pre.deadline = MaxSigDeadline /\ last.pre.nonce = MaxUnorderedNonce
            /\ AmountsInRange(last.pre)) => last.fault = "OK"
      /\ last.pre.deadline = MaxSigDeadline + 1 => last.fault = "SIG_DEADLINE_OUT_OF_RANGE"
      /\ (last.pre.deadline <= MaxSigDeadline /\ last.pre.nonce = MaxUnorderedNonce + 1)
            => last.fault = "NONCE_OUT_OF_RANGE"

C3_Witness ==
    /\ last.op = "getPermitBatchTransferData"
    /\ last.pre.deadline = MaxSigDeadline
    /\ last.pre.nonce = MaxUnorderedNonce
    /\ Len(last.pre.permitted.array) > 0
    /\ last.fault = "OK"

\* C4: getPermitData and hash dispatch on whether `permitted` is an array and
\* on nothing else: every batch permit in range, with one element or none
\* too, gets the batch declarations (`permitted` typed TokenPermissions[]) and
\* the batch primary-type name, every single permit the single ones.
C4_StructuralDispatch ==
    (last.op \in {"getPermitData", "hash"} /\ BoundsInRange(last.pre)) =>
      /\ Succeeded
      /\ PrimaryName(last.pre, last.witness) \in DOMAIN TypesOf(last)
      /\ TypesOf(last)[PrimaryName(last.pre, last.witness)][1]
            = Field("permitted", PermittedType(last.pre))
      /\ ~last.witness.present =>
            TypesOf(last) = IF IsBatch(last.pre) THEN PERMIT_BATCH_TRANSFER_FROM_TYPES
                            ELSE PERMIT_TRANSFER_FROM_TYPES
      /\ last.op = "hash" =>
            last.request.primaryType = PrimaryName(last.pre, last.witness)

C4_Witness ==
    /\ last.op = "hash"
    /\ IsBatch(last.pre)
    /\ Len(last.pre.permitted.array) = 1
    /\ last.witness.present
    /\ Succeeded
    /\ last.request.primaryType = "PermitBatchWitnessTransferFrom"

\* C5 as stated: with a witness the keys of `types` are the witness's own
\* type names, TokenPermissions and the extended primary struct; the base
\* primary struct name is not among them; the extended struct ends with the
\* `witness` field typed by witnessTypeName.
C5_Original ==
    (Succeeded /\ last.witness.present) =>
      LET types == TypesOf(last)
          ext == types[ExtendedName(last.pre)]
      IN /\ DOMAIN types = DOMAIN last.witness.witnessType
                             \cup {"TokenPermissions", ExtendedName(last.pre)}
         /\ BaseName(last.pre) \notin DOMAIN types
         /\ ext[Len(ext)] = Field("witness", last.witness.witnessTypeName)

\* C5, amended: with a witness the keys of `types` are the witness's own type
\* names, TokenPermissions and the extended primary struct; the base primary
\* struct name is among them only when the witness's own type mapping
\* declares a type of that name; the extended struct ends with the `witness`
\* field typed by witnessTypeName.
C5_WitnessTypes ==
    (Succeeded /\ last.witness.present) =>
      LET types == TypesOf(last)
          ext == types[ExtendedName(last.pre)]
      IN /\ DOMAIN types = DOMAIN last.witness.witnessType
                             \cup {"TokenPermissions", ExtendedName(last.pre)}
         /\ (BaseName(last.pre) \in DOMAIN types)
               <=> (BaseName(last.pre) \in DOMAIN last.witness.witnessType)
         /\ ext[Len(ext)] = Field("witness", last.witness.witnessTypeName)

C5_Witness ==
    /\ last.op = "getPermitBatchTransferData"
    /\ Succeeded
    /\ last.witness.present
    /\ DOMAIN last.witness.witnessType = {"Order"}
    /\ DOMAIN last.data.types = {"Order", "TokenPermissions", "PermitBatchWitnessTransferFrom"}

\* C6: every call is a function of the permit as the caller constructed it
\* and of the other arguments, whatever calls were made before: it returns
\* what the same call returns on the freshly constructed permit.
C6_Stateless ==
    Succeeded =>
      CASE last.op = "hash" ->
             last.hash = hash(orig, last.permit2Address, last.chainId, last.witness).hash
        [] last.op = "getPermitData" ->
             last.data = getPermitData(orig, last.permit2Address, last.chainId,
                                       last.witness).data
        [] last.op = "getPermitTransferData" ->
             last.data = getPermitTransferData(orig, last.permit2Address, last.chainId,
                                               last.witness).data
        [] last.op = "getPermitBatchTransferData" ->
             last.data = getPermitBatchTransferData(orig, last.permit2Address,
                                                    last.chainId, last.witness).data

\* C7: hash fails with the fault getPermitData fails with, and otherwise
\* returns hashTypedData of the domain, types and values getPermitData
\* returns for the same arguments, under the primary-type name fixed by
\* (single?, witness present?).
C7_HashOfPermitData ==
    last.op = "hash" =>
      LET e == getPermitData(last.pre, last.permit2Address, last.chainId, last.witness)
      IN /\ last.fault = e.fault
         /\ e.fault # "OK" => ~last.invoked
         /\ e.fault = "OK" =>
              /\ last.invoked
              /\ last.hash = hashTypedData(
                   [domain |-> e.data.domain, types |-> e.data.types,
                    primaryType |-> PrimaryName(last.pre, last.witness),
                    message |-> e.data.values])

C7_Witness ==
    /\ last.op = "hash"
    /\ Succeeded
    /\ last.witness.present
    /\ IsBatch(last.pre)
    /\ Len(last.pre.permitted.array) = 2
    /\ last.pre.permitted.array[1] # last.pre.permitted.array[2]
    /\ last.request.message.permitted = last.pre.permitted
    /\ last.request.message.witness = last.witness.witness

\* C8: two valid inputs to hash that differ in exactly one of spender, nonce,
\* deadline, a token, an amount, or the presence of the witness give
\* different requests to the hashing primitive and different hashes.
C8_SingleFieldChangesHash ==
    pair.done => pair.requestA # pair.requestB /\ pair.hashA # pair.hashB

C8_Witness ==
    /\ pair.done
    /\ pair.field = "spender"
    /\ IsBatch(pair.permitA)
    /\ Len(pair.permitA.permitted.array) = 2
    /\ pair.witnessA.present
    /\ pair.permitA.spender # pair.permitB.spender
    /\ pair.hashA # pair.hashB

\* C9: in every returned `types`, whatever the witness declares, the
\* TokenPermissions entry is the protocol's [token: address, amount: uint256].
C9_TokenPermissionsFixed ==
    Succeeded => TypesOf(last)["TokenPermissions"] = TOKEN_PERMISSIONS

\* C10: a call that fails validation returns no triple and no hash, does not
\* invoke the hashing primitive, and leaves the caller's permit object as it
\* was before the call, also when a witness was supplied.
C10_FaultHasNoEffect ==
    Faulted =>
      /\ last.fault \in {"SIG_DEADLINE_OUT_OF_RANGE", "NONCE_OUT_OF_RANGE",
                         "AMOUNT_OUT_OF_RANGE"}
      /\ last.data = [none |-> TRUE]
      /\ last.hash = [none |-> TRUE]
      /\ ~last.invoked
      /\ permit = last.pre

C10_Witness ==
    /\ last.op = "hash"
    /\ last.witness.present
    /\ IsBatch(last.pre)
    /\ Len(last.pre.permitted.array) = 2
    /\ last.pre.permitted.array[1].amount <= MaxSignatureTransferAmount
    /\ last.pre.permitted.array[2].amount > MaxSignatureTransferAmount
    /\ last.fault = "AMOUNT_OUT_OF_RANGE"
    /\ permit = last.pre
    /\ "witness" \notin DOMAIN permit
====
